---- MODULE Spec2Model ----
(***************************************************************************)
(* The factor trackers of kronfluence/module/tracker/factor.py:            *)
(* CovarianceTracker and LambdaTracker, which accumulate statistics into   *)
(* the storage mapping of one tracked module from forward and backward     *)
(* hook firings.  Tensors are integer matrices (a batch is a sequence of   *)
(* rows), so sums are exact; dtype and device moves change no value and    *)
(* are not represented.  An optional value is None (the empty tuple) or    *)
(* Some(v) (the one-element tuple holding v).                              *)
(***************************************************************************)
EXTENDS Integers, Sequences, FiniteSets, TLC

VARIABLES
    mode,                        \* which tracker is attached: "covariance" or "lambda"
    storage,                     \* module.storage: factor name -> None | Some(value)
    cached_activations,          \* tracker.cached_activations
    cached_per_sample_gradient,  \* tracker.cached_per_sample_gradient
    factor_args,                 \* module.factor_args (fixed for a run)
    pending,                     \* host: backward hooks registered on outputs, not yet fired
    err,                         \* the exception the last operation raised, or "none"
    lastOp,                      \* the operation that made the last step
    hist                         \* history: what the firings so far were given

vars == <<mode, storage, cached_activations, cached_per_sample_gradient,
          factor_args, pending, err, lastOp, hist>>

-----------------------------------------------------------------------------
(* Bounds of the model. *)

\* largest number of rows in one batch
MaxBatch == 2
\* cap on each covariance processed-count
MaxCount == 3
\* cap on the backward hooks the host holds registered at one time
MaxInvocations == 3
\* cap on the Lambda processed-count
MaxLambdaCount == 2
\* cap on the rows one pass caches: forward firings times rows per batch
MaxPassRows == 3

-----------------------------------------------------------------------------
(* Optional values and small tensor algebra (the torch primitives used). *)

None == <<>>
Some(v) == <<v>>
IsNone(o) == o = <<>>
Val(o) == o[1]

RECURSIVE SumTo(_, _)
SumTo(f, n) == IF n = 0 THEN 0 ELSE f[n] + SumTo(f, n - 1)

NumRows(M) == Len(M)
NumCols(M) == Len(M[1])
Zeros(r, c) == [i \in 1..r |-> [j \in 1..c |-> 0]]
Transpose(M) == [j \in 1..NumCols(M) |-> [i \in 1..NumRows(M) |-> M[i][j]]]
MatMul(A, B) ==
    [i \in 1..NumRows(A) |->
        [j \in 1..NumCols(B) |->
            SumTo([k \in 1..NumCols(A) |-> A[i][k] * B[k][j]], NumCols(A))]]
MatAdd(A, B) == [i \in 1..NumRows(A) |-> [j \in 1..NumCols(A) |-> A[i][j] + B[i][j]]]
Square(M) == [i \in 1..NumRows(M) |-> [j \in 1..NumCols(M) |-> M[i][j] * M[i][j]]]
\* Tensor.addmm_(mat1, mat2): self + mat1 @ mat2
AddMM(M, A, B) == MatAdd(M, MatMul(A, B))
\* sum(dim=0) of a batch of equally shaped matrices
RECURSIVE SumDim0(_, _)
SumDim0(T, n) == IF n = 1 THEN T[1] ELSE MatAdd(SumDim0(T, n - 1), T[n])

-----------------------------------------------------------------------------
(* Factor names (kronfluence.utils.constants). *)

ACTIVATION_COVARIANCE_MATRIX_NAME == "activation_covariance"
GRADIENT_COVARIANCE_MATRIX_NAME == "gradient_covariance"
NUM_ACTIVATION_COVARIANCE_PROCESSED == "num_activation_covariance_processed"
NUM_GRADIENT_COVARIANCE_PROCESSED == "num_gradient_covariance_processed"
ACTIVATION_EIGENVECTORS_NAME == "activation_eigenvectors"
GRADIENT_EIGENVECTORS_NAME == "gradient_eigenvectors"
LAMBDA_MATRIX_NAME == "lambda_matrix"
NUM_LAMBDA_PROCESSED == "num_lambda_processed"

COVARIANCE_FACTOR_NAMES ==
    <<ACTIVATION_COVARIANCE_MATRIX_NAME, GRADIENT_COVARIANCE_MATRIX_NAME,
      NUM_ACTIVATION_COVARIANCE_PROCESSED, NUM_GRADIENT_COVARIANCE_PROCESSED>>
EIGENDECOMPOSITION_FACTOR_NAMES ==
    <<ACTIVATION_EIGENVECTORS_NAME, GRADIENT_EIGENVECTORS_NAME>>
LAMBDA_FACTOR_NAMES == <<LAMBDA_MATRIX_NAME, NUM_LAMBDA_PROCESSED>>

FactorNames ==
    {COVARIANCE_FACTOR_NAMES[i] : i \in 1..Len(COVARIANCE_FACTOR_NAMES)}
    \cup {EIGENDECOMPOSITION_FACTOR_NAMES[i] : i \in 1..Len(EIGENDECOMPOSITION_FACTOR_NAMES)}
    \cup {LAMBDA_FACTOR_NAMES[i] : i \in 1..Len(LAMBDA_FACTOR_NAMES)}

EmptyStorage == [n \in FactorNames |-> None]

-----------------------------------------------------------------------------
(* What the host feeds the hooks. *)

\* rows of the module's input (d_in = 2) and of the gradient of its output (d_out = 2)
ActivationRows == {<<1, 0>>, <<1, 1>>}
GradientRows == {<<0, 1>>, <<1, 1>>}
Batches(rows, n) == [1..n -> rows]
ActivationBatches == UNION {Batches(ActivationRows, n) : n \in 1..MaxBatch}
GradientBatches == UNION {Batches(GradientRows, n) : n \in 1..MaxBatch}

\* module.gradient_scale, applied by BaseTracker._scale_output_gradient
GradientScale == 2
ScaleOutputGradient(output_gradient) ==
    [b \in 1..Len(output_gradient) |->
        [j \in 1..Len(output_gradient[b]) |-> GradientScale * output_gradient[b][j]]]

\* module.get_flattened_activation / get_flattened_gradient of a linear module
\* on a (batch, d) tensor: the rows themselves, and their number as the count
GetFlattenedActivation(input_activation) ==
    [flat |-> input_activation, count |-> Len(input_activation)]
GetFlattenedGradient(output_gradient) ==
    [flat |-> output_gradient, count |-> Len(output_gradient)]

-----------------------------------------------------------------------------
(* CovarianceTracker *)

\* a faulty update that overwrites the matrix with the batch's product instead
\* of adding to it
UpdateActivationCovarianceMatrixOverwriting(st, input_activation) ==
    LET fa == GetFlattenedActivation(input_activation)
        dimension == NumCols(fa.flat)
    IN [st EXCEPT ![NUM_ACTIVATION_COVARIANCE_PROCESSED] =
                      Some((IF IsNone(@) THEN 0 ELSE Val(@)) + fa.count),
                  ![ACTIVATION_COVARIANCE_MATRIX_NAME] =
                      Some(AddMM(Zeros(dimension, dimension), Transpose(fa.flat), fa.flat))]

\* a faulty update that allocates afresh at every call
UpdateActivationCovarianceMatrixReallocating(st, input_activation) ==
    LET fa == GetFlattenedActivation(input_activation)
        dimension == NumCols(fa.flat)
    IN [st EXCEPT ![NUM_ACTIVATION_COVARIANCE_PROCESSED] = Some(fa.count),
                  ![ACTIVATION_COVARIANCE_MATRIX_NAME] =
                      Some(AddMM(Zeros(dimension, dimension), Transpose(fa.flat), fa.flat))]

UpdateActivationCovarianceMatrix(st, input_activation) ==
    LET fa == GetFlattenedActivation(input_activation)
        dimension == NumCols(fa.flat)
        st1 == IF IsNone(st[NUM_ACTIVATION_COVARIANCE_PROCESSED])
               THEN [st EXCEPT ![NUM_ACTIVATION_COVARIANCE_PROCESSED] = Some(0),
                               ![ACTIVATION_COVARIANCE_MATRIX_NAME] =
                                   Some(Zeros(dimension, dimension))]
               ELSE st
        st2 == [st1 EXCEPT ![NUM_ACTIVATION_COVARIANCE_PROCESSED] =
                               Some(Val(@) + fa.count)]
    IN [st2 EXCEPT ![ACTIVATION_COVARIANCE_MATRIX_NAME] =
                       Some(AddMM(Val(@), Transpose(fa.flat), fa.flat))]

\* a faulty update that adds the count of a backward firing to the activation count
UpdateGradientCovarianceMatrixWrongCount(st, output_gradient) ==
    LET fg == GetFlattenedGradient(output_gradient)
        dimension == NumCols(fg.flat)
        st1 == IF IsNone(st[NUM_GRADIENT_COVARIANCE_PROCESSED])
               THEN [st EXCEPT ![NUM_GRADIENT_COVARIANCE_PROCESSED] = Some(0),
                               ![GRADIENT_COVARIANCE_MATRIX_NAME] =
                                   Some(Zeros(dimension, dimension))]
               ELSE st
        st2 == [st1 EXCEPT ![NUM_ACTIVATION_COVARIANCE_PROCESSED] =
                               Some((IF IsNone(@) THEN 0 ELSE Val(@)) + fg.count)]
    IN [st2 EXCEPT ![GRADIENT_COVARIANCE_MATRIX_NAME] =
                       Some(AddMM(Val(@), Transpose(fg.flat), fg.flat))]

\* a faulty update that does nothing while the gradient entries are None
UpdateGradientCovarianceMatrixSkippingFirst(st, output_gradient) ==
    LET fg == GetFlattenedGradient(output_gradient)
    IN IF IsNone(st[NUM_GRADIENT_COVARIANCE_PROCESSED])
       THEN st
       ELSE [st EXCEPT ![NUM_GRADIENT_COVARIANCE_PROCESSED] = Some(Val(@) + fg.count),
                       ![GRADIENT_COVARIANCE_MATRIX_NAME] =
                           Some(AddMM(Val(@), Transpose(fg.flat), fg.flat))]

UpdateGradientCovarianceMatrix(st, output_gradient) ==
    LET fg == GetFlattenedGradient(output_gradient)
        dimension == NumCols(fg.flat)
        st1 == IF IsNone(st[NUM_GRADIENT_COVARIANCE_PROCESSED])
               THEN [st EXCEPT ![NUM_GRADIENT_COVARIANCE_PROCESSED] = Some(0),
                               ![GRADIENT_COVARIANCE_MATRIX_NAME] =
                                   Some(Zeros(dimension, dimension))]
               ELSE st
        st2 == [st1 EXCEPT ![NUM_GRADIENT_COVARIANCE_PROCESSED] =
                               Some(Val(@) + fg.count)]
    IN [st2 EXCEPT ![GRADIENT_COVARIANCE_MATRIX_NAME] =
                       Some(AddMM(Val(@), Transpose(fg.flat), fg.flat))]

\* exist(): the loop over the group's names, returning False at the first None
RECURSIVE ExistFrom(_, _, _)
ExistFrom(st, names, i) ==
    IF i > Len(names) THEN TRUE
    ELSE IF IsNone(st[names[i]]) THEN FALSE
    ELSE ExistFrom(st, names, i + 1)

\* a faulty exist() that answers from the first name alone
CovarianceExistFirstOnly(st) == ~IsNone(st[COVARIANCE_FACTOR_NAMES[1]])

CovarianceExist(st) == ExistFrom(st, COVARIANCE_FACTOR_NAMES, 1)

\* release_memory(): del and set to None, name by name
RECURSIVE ReleaseFrom(_, _, _)
ReleaseFrom(st, names, i) ==
    IF i > Len(names) THEN st
    ELSE ReleaseFrom([st EXCEPT ![names[i]] = None], names, i + 1)

\* a faulty release that drops the matrices and leaves their counts
CovarianceReleaseMemoryMatricesOnly(st) ==
    [st EXCEPT ![ACTIVATION_COVARIANCE_MATRIX_NAME] = None,
               ![GRADIENT_COVARIANCE_MATRIX_NAME] = None]

\* a faulty release that clears every entry of storage
CovarianceReleaseMemoryEverything(st) == [n \in DOMAIN st |-> None]

CovarianceReleaseMemory(st) == ReleaseFrom(st, COVARIANCE_FACTOR_NAMES, 1)


\* dist.reduce(op=SUM, dst=0) as seen by process 0: the entry plus the sum of
\* what the other processes hold for it (a count is a number, a factor a matrix)
ProcessedCountNames ==
    {NUM_ACTIVATION_COVARIANCE_PROCESSED, NUM_GRADIENT_COVARIANCE_PROCESSED,
     NUM_LAMBDA_PROCESSED}
ReduceSum(name, a, b) == IF name \in ProcessedCountNames THEN a + b ELSE MatAdd(a, b)

\* a faulty loop that reduces the first entry of the group and stops
ReduceFromFirstOnly(st, names, i, peers) ==
    [st EXCEPT ![names[1]] = Some(ReduceSum(names[1], Val(@), Val(peers[names[1]])))]

RECURSIVE ReduceFrom(_, _, _, _)
ReduceFrom(st, names, i, peers) ==
    IF i > Len(names) THEN st
    ELSE ReduceFrom([st EXCEPT ![names[i]] = Some(ReduceSum(names[i], Val(@), Val(peers[names[i]])))],
                    names, i + 1, peers)

\* a faulty synchronize that does not ask exist() and reduces whichever
\* entries of the group are set
CovarianceSynchronizePartial(st, dist_initialized, cuda_available, peers) ==
    IF dist_initialized /\ cuda_available
    THEN [n \in DOMAIN st |->
            IF n \in {COVARIANCE_FACTOR_NAMES[k] : k \in 1..Len(COVARIANCE_FACTOR_NAMES)}
               /\ ~IsNone(st[n])
            THEN Some(ReduceSum(n, Val(st[n]), Val(peers[n])))
            ELSE st[n]]
    ELSE st

CovarianceSynchronize(st, dist_initialized, cuda_available, peers) ==
    IF dist_initialized /\ cuda_available /\ CovarianceExist(st)
    THEN ReduceFrom(st, COVARIANCE_FACTOR_NAMES, 1, peers)
    ELSE st

-----------------------------------------------------------------------------
(* LambdaTracker *)

\* FactorConfig.CONFIGS[strategy].requires_eigendecomposition_for_lambda
Strategies == {"ekfac", "diagonal"}
RequiresEigendecompositionForLambda(strategy) == strategy = "ekfac"

\* module.compute_per_sample_gradient of a linear module: for each sample the
\* outer product of its output-gradient row and its activation row (d_out x d_in)
ComputePerSampleGradient(input_activation, output_gradient) ==
    [b \in 1..Len(output_gradient) |->
        [i \in 1..Len(output_gradient[b]) |->
            [j \in 1..Len(input_activation[b]) |->
                output_gradient[b][i] * input_activation[b][j]]]]

\* elementwise sum of two batches of matrices (Tensor.add_)
BatchAdd(S, T) == [b \in 1..Len(S) |-> MatAdd(S[b], T[b])]
BatchZerosLike(T) == [b \in 1..Len(T) |-> Zeros(NumRows(T[b]), NumCols(T[b]))]

EigendecompositionResultsExist(st) == ExistFrom(st, EIGENDECOMPOSITION_FACTOR_NAMES, 1)

\* lines 185-194: project the batch through the activation eigenvectors, then
\* sample by sample through the gradient eigenvectors' transpose, adding each square
RECURSIVE IterativeLoop(_, _, _, _)
IterativeLoop(lambda_matrix, gradient_eigenvectors, projected, i) ==
    IF i > Len(projected) THEN lambda_matrix
    ELSE LET sqrt_lambda == MatMul(Transpose(gradient_eigenvectors), projected[i])
         IN IterativeLoop(MatAdd(lambda_matrix, Square(sqrt_lambda)),
                          gradient_eigenvectors, projected, i + 1)

\* a faulty iterative mode that projects through the gradient eigenvectors
\* without transposing them
IterativeLambdaAggregationUntransposed(st, per_sample_gradient) ==
    IF IsNone(st[ACTIVATION_EIGENVECTORS_NAME])
    THEN [st |-> st, err |-> "TypeError"]
    ELSE LET projected ==
                 [b \in 1..Len(per_sample_gradient) |->
                     MatMul(per_sample_gradient[b], Val(st[ACTIVATION_EIGENVECTORS_NAME]))]
         IN IF IsNone(st[GRADIENT_EIGENVECTORS_NAME])
            THEN [st |-> st, err |-> "AttributeError"]
            ELSE [st |-> [st EXCEPT ![LAMBDA_MATRIX_NAME] =
                             Some(IterativeLoop(Val(@),
                                                Transpose(Val(st[GRADIENT_EIGENVECTORS_NAME])),
                                                projected, 1))],
                  err |-> "none"]

IterativeLambdaAggregation(st, per_sample_gradient) ==
    IF IsNone(st[ACTIVATION_EIGENVECTORS_NAME])
    THEN [st |-> st, err |-> "TypeError"]
    ELSE LET projected ==
                 [b \in 1..Len(per_sample_gradient) |->
                     MatMul(per_sample_gradient[b], Val(st[ACTIVATION_EIGENVECTORS_NAME]))]
         IN IF IsNone(st[GRADIENT_EIGENVECTORS_NAME])
            THEN [st |-> st, err |-> "AttributeError"]
            ELSE [st |-> [st EXCEPT ![LAMBDA_MATRIX_NAME] =
                             Some(IterativeLoop(Val(@), Val(st[GRADIENT_EIGENVECTORS_NAME]),
                                                projected, 1))],
                  err |-> "none"]

\* lines 196-200: both projections on the whole batch, square, sum over the batch, add once
BatchedLambdaAggregation(st, per_sample_gradient) ==
    IF IsNone(st[GRADIENT_EIGENVECTORS_NAME])
    THEN [st |-> st, err |-> "AttributeError"]
    ELSE IF IsNone(st[ACTIVATION_EIGENVECTORS_NAME])
    THEN [st |-> st, err |-> "TypeError"]
    ELSE LET rotated ==
                 [b \in 1..Len(per_sample_gradient) |->
                     MatMul(Transpose(Val(st[GRADIENT_EIGENVECTORS_NAME])),
                            MatMul(per_sample_gradient[b],
                                   Val(st[ACTIVATION_EIGENVECTORS_NAME])))]
             squared == [b \in 1..Len(rotated) |-> Square(rotated[b])]
         IN [st |-> [st EXCEPT ![LAMBDA_MATRIX_NAME] =
                        Some(MatAdd(Val(@), SumDim0(squared, Len(squared))))],
             err |-> "none"]

\* a faulty identity branch that sums the raw per-sample gradients unsquared
IdentityLambdaAggregationUnsquared(st, per_sample_gradient) ==
    [st |-> [st EXCEPT ![LAMBDA_MATRIX_NAME] =
                Some(MatAdd(Val(@), SumDim0(per_sample_gradient, Len(per_sample_gradient))))],
     err |-> "none"]

\* line 203: the eigenbasis approximated as the identity
IdentityLambdaAggregation(st, per_sample_gradient) ==
    LET squared == [b \in 1..Len(per_sample_gradient) |-> Square(per_sample_gradient[b])]
    IN [st |-> [st EXCEPT ![LAMBDA_MATRIX_NAME] =
                   Some(MatAdd(Val(@), SumDim0(squared, Len(squared))))],
        err |-> "none"]

\* _update_lambda_matrix: the storage it leaves and the exception it raises, if any
UpdateLambdaMatrix(st, args, per_sample_gradient) ==
    LET batch_size == Len(per_sample_gradient)
        first == IsNone(st[NUM_LAMBDA_PROCESSED])
        requires == RequiresEigendecompositionForLambda(args.strategy)
        st1 == IF first
               THEN [st EXCEPT ![NUM_LAMBDA_PROCESSED] = Some(0),
                               ![LAMBDA_MATRIX_NAME] =
                                   Some(Zeros(NumRows(per_sample_gradient[1]),
                                              NumCols(per_sample_gradient[1])))]
               ELSE st
    IN IF first /\ requires /\ ~EigendecompositionResultsExist(st1)
       THEN [st |-> st1, err |-> "FactorsNotFoundError"]
       ELSE LET st2 == [st1 EXCEPT ![NUM_LAMBDA_PROCESSED] = Some(Val(@) + batch_size)]
            IN IF requires
               THEN IF args.use_iterative_lambda_aggregation
                    THEN IterativeLambdaAggregation(st2, per_sample_gradient)
                    ELSE BatchedLambdaAggregation(st2, per_sample_gradient)
               ELSE IdentityLambdaAggregation(st2, per_sample_gradient)

LambdaExist(st) == ExistFrom(st, LAMBDA_FACTOR_NAMES, 1)

LambdaSynchronize(st, dist_initialized, cuda_available, peers) ==
    IF dist_initialized /\ cuda_available /\ LambdaExist(st)
    THEN ReduceFrom(st, LAMBDA_FACTOR_NAMES, 1, peers)
    ELSE st

\* a faulty release that drops the Lambda matrix and leaves its count
LambdaReleaseMemoryMatrixOnly(st) == [st EXCEPT ![LAMBDA_MATRIX_NAME] = None]

LambdaReleaseMemory(st) == ReleaseFrom(st, LAMBDA_FACTOR_NAMES, 1)

-----------------------------------------------------------------------------
(* LambdaTracker hooks.  Each handler is an operator from the tracker's    *)
(* state (and the hook's argument) to the state it leaves and the          *)
(* exception it raises.  A cached activation is kept with the number of    *)
(* the forward firing that cached it (its identity as an object).          *)

Outcome(st, cache, psg, e) ==
    [storage |-> st, cached_activations |-> cache,
     cached_per_sample_gradient |-> psg, err |-> e]

\* BaseTracker.clear_all_cache
ClearAllCache(o) ==
    [o EXCEPT !.cached_activations = None, !.cached_per_sample_gradient = None]

\* forward_hook, lines 211-224
LambdaForwardHookResult(st, args, cache, psg, inputs, idx) ==
    LET cached_activation == [t |-> inputs, idx |-> idx]
    IN IF args.has_shared_parameters
       THEN Outcome(st, Some(Append(IF IsNone(cache) THEN <<>> ELSE Val(cache),
                                    cached_activation)), psg, "none")
       ELSE Outcome(st, Some(cached_activation), psg, "none")

\* a faulty backward hook that returns silently when nothing is cached
LambdaBackwardHookResultSkipping(st, args, cache, psg, output_gradient) ==
    IF IsNone(cache)
    THEN Outcome(st, cache, psg, "none")
    ELSE LET scaled == ScaleOutputGradient(output_gradient)
             per_sample_gradient == ComputePerSampleGradient(Val(cache).t, scaled)
             r == UpdateLambdaMatrix(st, args, per_sample_gradient)
         IN Outcome(r.st, None, None, r.err)

\* backward_hook, lines 231-243
LambdaBackwardHookResult(st, args, cache, psg, output_gradient) ==
    IF IsNone(cache)
    THEN Outcome(st, cache, psg, "CacheNotFound")
    ELSE LET scaled == ScaleOutputGradient(output_gradient)
             per_sample_gradient == ComputePerSampleGradient(Val(cache).t, scaled)
             r == UpdateLambdaMatrix(st, args, per_sample_gradient)
         IN Outcome(r.st, None, None, r.err)

\* a faulty pop that takes the oldest cached activation (list.pop(0))
PopCachedActivationOldest(list) ==
    [item |-> list[1], rest |-> SubSeq(list, 2, Len(list))]

\* list.pop(): the last element and the list without it
PopCachedActivation(list) ==
    [item |-> list[Len(list)], rest |-> SubSeq(list, 1, Len(list) - 1)]

\* a faulty shared hook that also feeds each firing's gradient to the update
SharedBackwardHookResultUpdating(st, args, cache, psg, output_gradient) ==
    IF IsNone(cache)
    THEN Outcome(st, cache, psg, "AttributeError")
    ELSE IF Val(cache) = <<>>
    THEN Outcome(st, cache, psg, "IndexError")
    ELSE LET scaled == ScaleOutputGradient(output_gradient)
             popped == PopCachedActivation(Val(cache))
             per_sample_gradient == ComputePerSampleGradient(popped.item.t, scaled)
             base == IF IsNone(psg) THEN BatchZerosLike(per_sample_gradient) ELSE Val(psg)
             r == UpdateLambdaMatrix(st, args, per_sample_gradient)
         IN Outcome(r.st, Some(popped.rest), Some(BatchAdd(base, per_sample_gradient)), "none")

\* shared_backward_hook, lines 246-257
SharedBackwardHookResult(st, args, cache, psg, output_gradient) ==
    IF IsNone(cache)
    THEN Outcome(st, cache, psg, "AttributeError")
    ELSE IF Val(cache) = <<>>
    THEN Outcome(st, cache, psg, "IndexError")
    ELSE LET scaled == ScaleOutputGradient(output_gradient)
             popped == PopCachedActivation(Val(cache))
             per_sample_gradient == ComputePerSampleGradient(popped.item.t, scaled)
             base == IF IsNone(psg) THEN BatchZerosLike(per_sample_gradient) ELSE Val(psg)
         IN Outcome(st, Some(popped.rest), Some(BatchAdd(base, per_sample_gradient)), "none")

\* a faulty finalize that leaves the cache in place after the update
FinalizeIterationResultKeepingCache(st, args, cache, psg) ==
    IF IsNone(psg)
    THEN Outcome(st, cache, psg, "AttributeError")
    ELSE IF args.has_shared_parameters
    THEN LET r == UpdateLambdaMatrix(st, args, Val(psg))
         IN Outcome(r.st, cache, psg, r.err)
    ELSE Outcome(st, cache, psg, "none")

\* a faulty finalize that, with no sum accumulated, clears the cache and returns
FinalizeIterationResultTolerant(st, args, cache, psg) ==
    IF IsNone(psg)
    THEN ClearAllCache(Outcome(st, cache, psg, "none"))
    ELSE IF args.has_shared_parameters
    THEN LET r == UpdateLambdaMatrix(st, args, Val(psg))
         IN IF r.err # "none"
            THEN Outcome(r.st, cache, psg, r.err)
            ELSE ClearAllCache(Outcome(r.st, cache, psg, "none"))
    ELSE ClearAllCache(Outcome(st, cache, psg, "none"))

\* finalize_iteration, lines 262-267
FinalizeIterationResult(st, args, cache, psg) ==
    IF IsNone(psg)
    THEN Outcome(st, cache, psg, "AttributeError")
    ELSE IF args.has_shared_parameters
    THEN LET r == UpdateLambdaMatrix(st, args, Val(psg))
         IN IF r.err # "none"
            THEN Outcome(r.st, cache, psg, r.err)
            ELSE ClearAllCache(Outcome(r.st, cache, psg, "none"))
    ELSE ClearAllCache(Outcome(st, cache, psg, "none"))

\* release_memory, lines 288-293
LambdaReleaseMemoryResult(st, cache, psg) ==
    LET cleared == ClearAllCache(Outcome(st, cache, psg, "none"))
    IN [cleared EXCEPT !.storage = LambdaReleaseMemory(st)]

-----------------------------------------------------------------------------
(* The state machine: one tracked module, its attached tracker and the host. *)

CountOf(st, name) == IF IsNone(st[name]) THEN 0 ELSE Val(st[name])

\* FactorArguments: the defaults, and the settings a Lambda run may have
DefaultFactorArguments ==
    [strategy |-> "ekfac", has_shared_parameters |-> FALSE,
     use_iterative_lambda_aggregation |-> FALSE]
FactorArguments ==
    [strategy : Strategies, has_shared_parameters : BOOLEAN,
     use_iterative_lambda_aggregation : BOOLEAN]

\* eigenvectors as an earlier eigendecomposition left them in storage
\* (integer matrices with orthogonal columns)
LoadedActivationEigenvectors == <<<<1, 1>>, <<-1, 1>>>>
LoadedGradientEigenvectors == <<<<1, -1>>, <<1, 1>>>>

\* what another process (or an earlier phase) holds after one forward and one
\* backward firing of each tracker on a one-row batch
PeerStorage ==
    LET x == <<<<1, 1>>>>
        g == ScaleOutputGradient(<<<<1, 1>>>>)
        cov == UpdateGradientCovarianceMatrix(
                   UpdateActivationCovarianceMatrix(EmptyStorage, x), g)
    IN UpdateLambdaMatrix(cov, [DefaultFactorArguments EXCEPT !.strategy = "diagonal"],
                          ComputePerSampleGradient(x, g)).st

\* a bag of rows: how many times each row was processed
NoRows == [r \in {} |-> 0]
AddRows(bag, flat) ==
    [r \in DOMAIN bag \cup {flat[b] : b \in 1..Len(flat)} |->
        (IF r \in DOMAIN bag THEN bag[r] ELSE 0)
        + Cardinality({b \in 1..Len(flat) : flat[b] = r})]

NoHistory ==
    [actRows |-> NoRows, actElems |-> 0, actFirings |-> 0,
     gradRows |-> NoRows, gradElems |-> 0, gradFirings |-> 0, reduced |-> FALSE,
     fwdIdx |-> 0, bwdIdx |-> 0, usedIdx |-> 0, hookIdx |-> 0,
     expected |-> None]

\* the part of the history that belongs to one pass of the Lambda cache
NewPass(h) ==
    [h EXCEPT !.fwdIdx = 0, !.bwdIdx = 0, !.usedIdx = 0,
              !.hookIdx = 0, !.expected = None]

\* A run is one tracker at work on the module.  A covariance run starts from
\* the module as constructed, with or without Lambda factors an earlier fit left
\* in storage.  A Lambda run starts with the eigenvectors an eigendecomposition
\* stored (either may be missing), and the covariance factors they came from.
Init ==
    /\ mode \in {"covariance", "lambda"}
    /\ factor_args \in (IF mode = "lambda" THEN FactorArguments ELSE {DefaultFactorArguments})
    /\ RequiresEigendecompositionForLambda(factor_args.strategy)
           \/ ~factor_args.use_iterative_lambda_aggregation
    /\ \E ae \in (IF mode = "lambda" THEN {None, Some(LoadedActivationEigenvectors)}
                   ELSE {None}),
          ge \in (IF mode = "lambda" THEN {None, Some(LoadedGradientEigenvectors)}
                   ELSE {None}),
          other \in {EmptyStorage, PeerStorage} :
         /\ mode = "lambda" => (other = PeerStorage <=> ~IsNone(ae) /\ ~IsNone(ge))
         /\ mode = "lambda" /\ ~RequiresEigendecompositionForLambda(factor_args.strategy)
                => IsNone(ae) = IsNone(ge)
         /\ storage = [n \in FactorNames |->
                         IF n = ACTIVATION_EIGENVECTORS_NAME THEN ae
                         ELSE IF n = GRADIENT_EIGENVECTORS_NAME THEN ge
                         ELSE IF mode = "covariance" /\ n \in {LAMBDA_MATRIX_NAME, NUM_LAMBDA_PROCESSED}
                              THEN other[n]
                         ELSE IF mode = "lambda" /\ n \notin {LAMBDA_MATRIX_NAME, NUM_LAMBDA_PROCESSED}
                              THEN other[n]
                         ELSE None]
    /\ cached_activations = None
    /\ cached_per_sample_gradient = None
    /\ pending = <<>>
    /\ err = "none"
    /\ lastOp = "init"
    /\ hist = NoHistory

\* once the cache is cleared, a hook still registered can no longer be matched
\* with the activation of its forward firing: only the shape of its gradient is kept
Stale(hooks) == [k \in 1..Len(hooks) |-> [idx |-> 0, n |-> hooks[k].n, act |-> <<>>]]

Top(seq) == seq[Len(seq)]
Pop(seq) == SubSeq(seq, 1, Len(seq) - 1)

Apply(o) ==
    /\ storage' = o.storage
    /\ cached_activations' = o.cached_activations
    /\ cached_per_sample_gradient' = o.cached_per_sample_gradient
    /\ err' = o.err

(* CovarianceTracker *)

CovForwardHook ==
    /\ mode = "covariance"
    /\ Len(pending) < MaxInvocations
    /\ \E inputs \in ActivationBatches :
         /\ CountOf(storage, NUM_ACTIVATION_COVARIANCE_PROCESSED) + Len(inputs) <= MaxCount
         /\ storage' = UpdateActivationCovarianceMatrix(storage, inputs)
         /\ pending' = Append(pending, [idx |-> 0, n |-> Len(inputs), act |-> <<>>])
         /\ hist' = [hist EXCEPT
                        !.actRows = AddRows(@, GetFlattenedActivation(inputs).flat),
                        !.actElems = @ + GetFlattenedActivation(inputs).count,
                        !.actFirings = @ + 1]
    /\ err' = "none"
    /\ lastOp' = "forward_hook"
    /\ UNCHANGED <<mode, factor_args, cached_activations, cached_per_sample_gradient>>

CovBackwardHook ==
    /\ mode = "covariance"
    /\ pending # <<>>
    /\ \E output_gradient \in Batches(GradientRows, Top(pending).n) :
         LET scaled == ScaleOutputGradient(output_gradient)
         IN /\ CountOf(storage, NUM_GRADIENT_COVARIANCE_PROCESSED) + Len(scaled) <= MaxCount
            /\ storage' = UpdateGradientCovarianceMatrix(storage, scaled)
            /\ hist' = [hist EXCEPT
                           !.gradRows = AddRows(@, GetFlattenedGradient(scaled).flat),
                           !.gradElems = @ + GetFlattenedGradient(scaled).count,
                           !.gradFirings = @ + 1]
    /\ pending' = Pop(pending)
    /\ err' = "none"
    /\ lastOp' = "backward_hook"
    /\ UNCHANGED <<mode, factor_args, cached_activations, cached_per_sample_gradient>>

CovSynchronize ==
    /\ mode = "covariance"
    /\ \E dist_initialized \in BOOLEAN, cuda_available \in BOOLEAN :
         /\ storage' = CovarianceSynchronize(storage, dist_initialized, cuda_available,
                                             PeerStorage)
         /\ CountOf(storage', NUM_ACTIVATION_COVARIANCE_PROCESSED) <= MaxCount
         /\ CountOf(storage', NUM_GRADIENT_COVARIANCE_PROCESSED) <= MaxCount
         /\ hist' = [hist EXCEPT !.reduced = @ \/ storage' # storage]
    /\ err' = "none"
    /\ lastOp' = "synchronize"
    /\ UNCHANGED <<mode, factor_args, cached_activations, cached_per_sample_gradient, pending>>

CovReleaseMemory ==
    /\ mode = "covariance"
    /\ storage' = CovarianceReleaseMemory(storage)
    /\ hist' = [hist EXCEPT !.actRows = NoRows, !.actElems = 0, !.actFirings = 0,
                            !.gradRows = NoRows, !.gradElems = 0, !.gradFirings = 0,
                            !.reduced = FALSE]
    /\ err' = "none"
    /\ lastOp' = "release_memory"
    /\ UNCHANGED <<mode, factor_args, cached_activations, cached_per_sample_gradient, pending>>

(* LambdaTracker *)

\* the batch the host gives a module with shared parameters is the same at
\* every invocation of one pass
SameBatchAsPass(inputs) ==
    /\ pending # <<>> => Len(inputs) = Top(pending).n
    /\ ~IsNone(cached_per_sample_gradient) =>
           Len(inputs) = Len(Val(cached_per_sample_gradient))

LambdaForwardHook ==
    /\ mode = "lambda"
    /\ Len(pending) < MaxInvocations
    /\ hist.fwdIdx < MaxInvocations
    \* the host runs the forward pass to its end before the backward pass begins
    /\ hist.bwdIdx = 0
    /\ \E inputs \in ActivationBatches :
         /\ factor_args.has_shared_parameters => SameBatchAsPass(inputs)
         /\ (hist.fwdIdx + 1) * Len(inputs) <= MaxPassRows
         /\ CountOf(storage, NUM_LAMBDA_PROCESSED) + Len(inputs) <= MaxLambdaCount
         /\ Apply(LambdaForwardHookResult(storage, factor_args, cached_activations,
                                          cached_per_sample_gradient, inputs,
                                          hist.fwdIdx + 1))
         /\ pending' = Append(pending,
                              IF factor_args.has_shared_parameters
                              THEN [idx |-> hist.fwdIdx + 1, n |-> Len(inputs), act |-> inputs]
                              ELSE [idx |-> 0, n |-> Len(inputs), act |-> <<>>])
    /\ hist' = [hist EXCEPT !.fwdIdx = @ + 1]
    /\ lastOp' = "forward_hook"
    /\ UNCHANGED <<mode, factor_args>>

LambdaBackwardHook ==
    /\ mode = "lambda"
    /\ ~factor_args.has_shared_parameters
    /\ pending # <<>>
    /\ CountOf(storage, NUM_LAMBDA_PROCESSED) + Top(pending).n <= MaxLambdaCount
    /\ \E output_gradient \in Batches(GradientRows, Top(pending).n) :
         Apply(LambdaBackwardHookResult(storage, factor_args, cached_activations,
                                        cached_per_sample_gradient, output_gradient))
    /\ pending' = IF IsNone(cached_activations) THEN Pop(pending) ELSE Stale(Pop(pending))
    /\ hist' = IF IsNone(cached_activations) THEN hist ELSE NewPass(hist)
    /\ lastOp' = "backward_hook"
    /\ UNCHANGED <<mode, factor_args>>

SharedBackwardHook ==
    /\ mode = "lambda"
    /\ factor_args.has_shared_parameters
    /\ pending # <<>>
    /\ \E output_gradient \in Batches(GradientRows, Top(pending).n) :
         LET o == SharedBackwardHookResult(storage, factor_args, cached_activations,
                                           cached_per_sample_gradient, output_gradient)
             scaled == ScaleOutputGradient(output_gradient)
             own == IF Top(pending).act = <<>>
                    THEN ComputePerSampleGradient(Zeros(Len(scaled), Len(scaled[1])), scaled)
                    ELSE ComputePerSampleGradient(Top(pending).act, scaled)
         IN /\ Apply(o)
            /\ hist' = IF o.err # "none" THEN hist
                       ELSE [hist EXCEPT
                               !.bwdIdx = @ + 1,
                               !.hookIdx = Top(pending).idx,
                               !.usedIdx = PopCachedActivation(Val(cached_activations)).item.idx,
                               !.expected = Some(IF IsNone(@) THEN own ELSE BatchAdd(Val(@), own))]
    /\ pending' = Pop(pending)
    /\ lastOp' = "backward_hook"
    /\ UNCHANGED <<mode, factor_args>>

FinalizeIteration ==
    /\ mode = "lambda"
    /\ ~IsNone(cached_per_sample_gradient) =>
           CountOf(storage, NUM_LAMBDA_PROCESSED) + Len(Val(cached_per_sample_gradient))
               <= MaxLambdaCount
    /\ LET o == FinalizeIterationResult(storage, factor_args, cached_activations,
                                        cached_per_sample_gradient)
       IN /\ Apply(o)
          /\ hist' = IF o.err # "none" THEN hist ELSE NewPass(hist)
          /\ pending' = IF o.err # "none" THEN pending ELSE Stale(pending)
    /\ lastOp' = "finalize_iteration"
    /\ UNCHANGED <<mode, factor_args>>

LambdaSynchronizeStep ==
    /\ mode = "lambda"
    \* synchronize is a step between passes, never within one
    /\ IsNone(cached_activations) /\ IsNone(cached_per_sample_gradient)
    /\ \E dist_initialized \in BOOLEAN, cuda_available \in BOOLEAN :
         /\ storage' = LambdaSynchronize(storage, dist_initialized, cuda_available, PeerStorage)
         /\ CountOf(storage', NUM_LAMBDA_PROCESSED) <= MaxLambdaCount
    /\ err' = "none"
    /\ lastOp' = "synchronize"
    /\ UNCHANGED <<mode, factor_args, cached_activations, cached_per_sample_gradient,
                   pending, hist>>

LambdaReleaseMemoryStep ==
    /\ mode = "lambda"
    /\ Apply(LambdaReleaseMemoryResult(storage, cached_activations,
                                       cached_per_sample_gradient))
    /\ hist' = NewPass(hist)
    /\ pending' = Stale(pending)
    /\ lastOp' = "release_memory"
    /\ UNCHANGED <<mode, factor_args>>

Next ==
    \/ CovForwardHook
    \/ CovBackwardHook
    \/ CovSynchronize
    \/ CovReleaseMemory
    \/ LambdaForwardHook
    \/ LambdaBackwardHook
    \/ SharedBackwardHook
    \/ FinalizeIteration
    \/ LambdaSynchronizeStep
    \/ LambdaReleaseMemoryStep

Spec == Init /\ [][Next]_vars

-----------------------------------------------------------------------------
(* Properties *)

OuterProduct(x) == [i \in 1..Len(x) |-> [j \in 1..Len(x) |-> x[i] * x[j]]]
Scaled(k, M) == [i \in 1..NumRows(M) |-> [j \in 1..NumCols(M) |-> k * M[i][j]]]

\* the sum of x^T x over the rows of a non-empty bag, row by row
RECURSIVE SumOfOuterProducts(_, _)
SumOfOuterProducts(bag, rows) ==
    LET x == CHOOSE r \in rows : TRUE
        term == Scaled(bag[x], OuterProduct(x))
    IN IF rows = {x} THEN term
       ELSE MatAdd(term, SumOfOuterProducts(bag, rows \ {x}))

MatchesClosedForm(entry, bag) ==
    IF DOMAIN bag = {} THEN IsNone(entry)
    ELSE ~IsNone(entry) /\ Val(entry) = SumOfOuterProducts(bag, DOMAIN bag)

FirstHalf(X) == SubSeq(X, 1, Len(X) \div 2)
SecondHalf(X) == SubSeq(X, Len(X) \div 2 + 1, Len(X))
EvenBatches(rows) == UNION {Batches(rows, 2 * h) : h \in 1..(MaxBatch \div 2)}

\* C1: in a covariance run whose storage holds only what this tracker's hooks
\* accumulated since it was all None, the activation covariance is the sum of
\* x^T x over every activation row processed and the gradient covariance the sum
\* of g^T g over every (scaled) gradient row processed; and from the present
\* storage one firing with a batch leaves the same matrices and counts as two
\* firings with its two halves.
C1_CovarianceClosedForm ==
    (mode = "covariance" /\ ~hist.reduced) =>
        /\ MatchesClosedForm(storage[ACTIVATION_COVARIANCE_MATRIX_NAME], hist.actRows)
        /\ MatchesClosedForm(storage[GRADIENT_COVARIANCE_MATRIX_NAME], hist.gradRows)
        /\ \A X \in EvenBatches(ActivationRows) :
              UpdateActivationCovarianceMatrix(storage, X) =
                  UpdateActivationCovarianceMatrix(
                      UpdateActivationCovarianceMatrix(storage, FirstHalf(X)), SecondHalf(X))
        /\ \A G \in EvenBatches(GradientRows) :
              UpdateGradientCovarianceMatrix(storage, ScaleOutputGradient(G)) =
                  UpdateGradientCovarianceMatrix(
                      UpdateGradientCovarianceMatrix(storage, ScaleOutputGradient(FirstHalf(G))),
                      ScaleOutputGradient(SecondHalf(G)))

\* three activation rows in two firings and one backward firing have been
\* accumulated, and the rows were not all the same
C1_Witness ==
    /\ mode = "covariance" /\ ~hist.reduced
    /\ hist.actFirings = 2 /\ hist.actElems = 3 /\ hist.gradFirings = 1
    /\ Cardinality(DOMAIN hist.actRows) = 2
    /\ Val(storage[ACTIVATION_COVARIANCE_MATRIX_NAME])[1][2] = 1

\* C2: since the last release the activation count is the sum of the element
\* counts of the forward firings and the gradient count the sum of the element
\* counts of the backward firings, each on its own, whether or not as many
\* backward as forward firings happened.
C2_CountsAdditive ==
    (mode = "covariance" /\ ~hist.reduced) =>
        /\ IsNone(storage[NUM_ACTIVATION_COVARIANCE_PROCESSED]) <=> hist.actFirings = 0
        /\ IsNone(storage[NUM_GRADIENT_COVARIANCE_PROCESSED]) <=> hist.gradFirings = 0
        /\ CountOf(storage, NUM_ACTIVATION_COVARIANCE_PROCESSED) = hist.actElems
        /\ CountOf(storage, NUM_GRADIENT_COVARIANCE_PROCESSED) = hist.gradElems

\* two forward firings and one backward firing, with different counts
C2_Witness ==
    /\ mode = "covariance" /\ ~hist.reduced
    /\ hist.actFirings = 2 /\ hist.gradFirings = 1
    /\ CountOf(storage, NUM_ACTIVATION_COVARIANCE_PROCESSED) = 3
    /\ CountOf(storage, NUM_GRADIENT_COVARIANCE_PROCESSED) = 2

\* C3: on a module with shared parameters whose k forward firings of a pass
\* are unwound by the host in reverse order, the j-th backward firing consumes
\* the activation cached by the (k-j+1)-th forward firing, which is the forward
\* firing its own hook was registered by, and the running sum is the sum of the
\* per-sample gradients of those (activation, gradient) pairs.
C3_SharedPairing ==
    (mode = "lambda" /\ factor_args.has_shared_parameters /\ hist.bwdIdx > 0) =>
        /\ hist.usedIdx = hist.hookIdx
        /\ hist.usedIdx = hist.fwdIdx - hist.bwdIdx + 1
        /\ cached_per_sample_gradient = hist.expected

\* three invocations in one pass, all three backward hooks fired
C3_Witness ==
    /\ mode = "lambda" /\ factor_args.has_shared_parameters
    /\ hist.fwdIdx = 3 /\ hist.bwdIdx = 3 /\ hist.usedIdx = 1
    /\ lastOp = "backward_hook" /\ err = "none"
    /\ Val(cached_activations) = <<>>

\* the steps in which _update_lambda_matrix is called
UpdateIsCalled ==
    /\ mode = "lambda"
    /\ \/ /\ ~factor_args.has_shared_parameters
          /\ lastOp' = "backward_hook"
          /\ ~IsNone(cached_activations)
       \/ /\ factor_args.has_shared_parameters
          /\ lastOp' = "finalize_iteration"
          /\ ~IsNone(cached_per_sample_gradient)

LambdaEntriesUnchanged ==
    /\ storage'[LAMBDA_MATRIX_NAME] = storage[LAMBDA_MATRIX_NAME]
    /\ storage'[NUM_LAMBDA_PROCESSED] = storage[NUM_LAMBDA_PROCESSED]

\* C4: an update requested under a strategy that requires eigendecomposition
\* while an eigenvector entry is None raises FactorsNotFoundError and leaves the
\* Lambda matrix and the Lambda count as they were before the call.
C4_FailedUpdateLeavesLambda ==
    [][(/\ UpdateIsCalled
        /\ RequiresEigendecompositionForLambda(factor_args.strategy)
        /\ ~EigendecompositionResultsExist(storage))
       => (err' = "FactorsNotFoundError" /\ LambdaEntriesUnchanged)]_vars

NextPerSampleGradients ==
    IF factor_args.has_shared_parameters
    THEN IF IsNone(cached_per_sample_gradient) THEN {}
         ELSE {Val(cached_per_sample_gradient)}
    ELSE IF IsNone(cached_activations) THEN {}
         ELSE {ComputePerSampleGradient(Val(cached_activations).t, ScaleOutputGradient(g)) :
                  g \in Batches(GradientRows, Len(Val(cached_activations).t))}

\* C6: under a strategy that requires eigendecomposition, from the same storage
\* (the same eigenvectors among it) and for the same per-sample gradient batch,
\* the update in iterative mode leaves the same Lambda matrix and the same count
\* as the update in batched mode, and with the eigenvectors present both return.
C6_IterativeEqualsBatched ==
    (mode = "lambda" /\ RequiresEigendecompositionForLambda(factor_args.strategy)) =>
        \A psg \in NextPerSampleGradients :
            LET iterative == UpdateLambdaMatrix(
                    storage, [factor_args EXCEPT !.use_iterative_lambda_aggregation = TRUE], psg)
                batched == UpdateLambdaMatrix(
                    storage, [factor_args EXCEPT !.use_iterative_lambda_aggregation = FALSE], psg)
            IN /\ iterative.st[LAMBDA_MATRIX_NAME] = batched.st[LAMBDA_MATRIX_NAME]
               /\ iterative.st[NUM_LAMBDA_PROCESSED] = batched.st[NUM_LAMBDA_PROCESSED]
               /\ EigendecompositionResultsExist(storage) =>
                      iterative.err = "none" /\ batched.err = "none"

\* storage holds both eigenvector matrices and the next update takes a batch of
\* two per-sample gradients, which iterative mode adds into a non-zero matrix
C6_Witness ==
    /\ mode = "lambda" /\ factor_args.strategy = "ekfac"
    /\ EigendecompositionResultsExist(storage)
    /\ \E psg \in NextPerSampleGradients :
          LET iterative == UpdateLambdaMatrix(
                  storage, [factor_args EXCEPT !.use_iterative_lambda_aggregation = TRUE], psg)
          IN /\ Len(psg) = 2
             /\ iterative.err = "none"
             /\ Val(iterative.st[LAMBDA_MATRIX_NAME]) # Zeros(2, 2)
             /\ CountOf(iterative.st, NUM_LAMBDA_PROCESSED) = 2

CovarianceGroup ==
    {ACTIVATION_COVARIANCE_MATRIX_NAME, GRADIENT_COVARIANCE_MATRIX_NAME,
     NUM_ACTIVATION_COVARIANCE_PROCESSED, NUM_GRADIENT_COVARIANCE_PROCESSED}
LambdaGroup == {LAMBDA_MATRIX_NAME, NUM_LAMBDA_PROCESSED}

\* C7: exist() of either tracker is true exactly when every entry of its group
\* (two covariance matrices and two counts; Lambda matrix and count) is set, and
\* with any one of them put to None it is false.
C7_ExistIffAllSet ==
    /\ CovarianceExist(storage) <=> \A n \in CovarianceGroup : ~IsNone(storage[n])
    /\ LambdaExist(storage) <=> \A n \in LambdaGroup : ~IsNone(storage[n])
    /\ \A n \in CovarianceGroup : ~CovarianceExist([storage EXCEPT ![n] = None])
    /\ \A n \in LambdaGroup : ~LambdaExist([storage EXCEPT ![n] = None])

\* the first covariance entry is set and a later one is not, so exist() is
\* false, while the Lambda group is complete
C7_Witness ==
    /\ ~IsNone(storage[ACTIVATION_COVARIANCE_MATRIX_NAME])
    /\ ~IsNone(storage[NUM_ACTIVATION_COVARIANCE_PROCESSED])
    /\ IsNone(storage[GRADIENT_COVARIANCE_MATRIX_NAME])
    /\ ~CovarianceExist(storage)
    /\ LambdaExist(storage)

\* C8: release_memory() of either tracker raises nothing and leaves every entry
\* of its group None (matrices and counts alike), in whatever state it is
\* called; called again on what it left, it changes nothing.
C8_ReleaseIdempotent ==
    /\ (lastOp = "release_memory" /\ mode = "covariance") =>
           err = "none" /\ \A n \in CovarianceGroup : IsNone(storage[n])
    /\ (lastOp = "release_memory" /\ mode = "lambda") =>
           err = "none" /\ \A n \in LambdaGroup : IsNone(storage[n])
    /\ LET once == CovarianceReleaseMemory(storage)
       IN /\ \A n \in CovarianceGroup : IsNone(once[n])
          /\ CovarianceReleaseMemory(once) = once
    /\ LET once == LambdaReleaseMemoryResult(storage, cached_activations,
                                             cached_per_sample_gradient)
       IN /\ \A n \in LambdaGroup : IsNone(once.storage[n])
          /\ once.err = "none"
          /\ LambdaReleaseMemoryResult(once.storage, once.cached_activations,
                                       once.cached_per_sample_gradient) = once

\* a covariance release has just run on a tracker with hooks still registered
C8_Witness ==
    /\ mode = "covariance" /\ lastOp = "release_memory" /\ err = "none"
    /\ Len(pending) = 2
    /\ \A n \in CovarianceGroup : IsNone(storage[n])

\* C9: in every reachable state each matrix is None exactly when its own count
\* is None.
C9_MatrixAndCountTogether ==
    /\ IsNone(storage[ACTIVATION_COVARIANCE_MATRIX_NAME])
           <=> IsNone(storage[NUM_ACTIVATION_COVARIANCE_PROCESSED])
    /\ IsNone(storage[GRADIENT_COVARIANCE_MATRIX_NAME])
           <=> IsNone(storage[NUM_GRADIENT_COVARIANCE_PROCESSED])
    /\ IsNone(storage[LAMBDA_MATRIX_NAME]) <=> IsNone(storage[NUM_LAMBDA_PROCESSED])

\* a Lambda update has failed and left its matrix and count both set
C9_Witness ==
    /\ mode = "lambda" /\ err = "FactorsNotFoundError"
    /\ ~IsNone(storage[LAMBDA_MATRIX_NAME]) /\ ~IsNone(storage[NUM_LAMBDA_PROCESSED])

\* the backward firing finds nothing cached for it
CacheMiss ==
    \/ IsNone(cached_activations)
    \/ factor_args.has_shared_parameters /\ Val(cached_activations) = <<>>

\* C10: a LambdaTracker backward firing that finds no cached activation raises
\* an error and leaves the Lambda matrix, the Lambda count and the running
\* per-sample-gradient sum as they were.
C10_CacheMissIsAnError ==
    [][(mode = "lambda" /\ lastOp' = "backward_hook" /\ CacheMiss)
       => /\ err' \in {"CacheNotFound", "AttributeError", "IndexError"}
          /\ LambdaEntriesUnchanged
          /\ cached_per_sample_gradient' = cached_per_sample_gradient
          /\ cached_activations' = cached_activations]_vars

\* a shared backward firing has found the cache emptied by the firings before it
C10_Witness ==
    /\ mode = "lambda" /\ factor_args.has_shared_parameters
    /\ lastOp = "backward_hook" /\ err = "IndexError"

\* entry by entry, a matrix plus the sum over the batch of the squared entries
PlusSumOfSquares(base, psg) ==
    [i \in 1..NumRows(psg[1]) |->
        [j \in 1..NumCols(psg[1]) |->
            base[i][j] + SumTo([b \in 1..Len(psg) |-> psg[b][i][j] * psg[b][i][j]], Len(psg))]]

LambdaMatrixOrZeros(st, psg) ==
    IF IsNone(st[LAMBDA_MATRIX_NAME])
    THEN Zeros(NumRows(psg[1]), NumCols(psg[1]))
    ELSE Val(st[LAMBDA_MATRIX_NAME])

WithoutEigenvectors(st) ==
    [st EXCEPT ![ACTIVATION_EIGENVECTORS_NAME] = None, ![GRADIENT_EIGENVECTORS_NAME] = None]

\* four per-sample gradients whose entries are all 1, given to one update on
\* storage that is all None
AllOnesExample ==
    LET psg == [b \in 1..4 |-> [i \in 1..2 |-> [j \in 1..2 |-> 1]]]
        r == UpdateLambdaMatrix(
                 EmptyStorage, [DefaultFactorArguments EXCEPT !.strategy = "diagonal"], psg)
    IN /\ r.err = "none"
       /\ Val(r.st[LAMBDA_MATRIX_NAME]) = [i \in 1..2 |-> [j \in 1..2 |-> 4]]
       /\ Val(r.st[NUM_LAMBDA_PROCESSED]) = 4

\* C11: under a strategy that does not require eigendecomposition every update
\* returns without error, adds to the Lambda matrix the sum over the batch of
\* the elementwise squares of the per-sample gradient, adds the batch size to
\* the count, and neither reads nor writes the eigenvector entries; one update
\* from None storage with four all-ones per-sample gradients leaves every
\* Lambda entry 4 and the count 4.
C11_IdentityUpdate ==
    [][/\ AllOnesExample
       /\ (UpdateIsCalled /\ ~RequiresEigendecompositionForLambda(factor_args.strategy))
          => \E psg \in NextPerSampleGradients :
                /\ err' = "none"
                /\ Val(storage'[LAMBDA_MATRIX_NAME]) =
                       PlusSumOfSquares(LambdaMatrixOrZeros(storage, psg), psg)
                /\ Val(storage'[NUM_LAMBDA_PROCESSED]) =
                       CountOf(storage, NUM_LAMBDA_PROCESSED) + Len(psg)
                /\ storage'[ACTIVATION_EIGENVECTORS_NAME] = storage[ACTIVATION_EIGENVECTORS_NAME]
                /\ storage'[GRADIENT_EIGENVECTORS_NAME] = storage[GRADIENT_EIGENVECTORS_NAME]
                /\ LET blind == UpdateLambdaMatrix(WithoutEigenvectors(storage), factor_args, psg)
                   IN /\ blind.err = "none"
                      /\ blind.st[LAMBDA_MATRIX_NAME] = storage'[LAMBDA_MATRIX_NAME]
                      /\ blind.st[NUM_LAMBDA_PROCESSED] = storage'[NUM_LAMBDA_PROCESSED]]_vars

\* with no eigenvectors in storage, a backward firing under the identity
\* strategy has brought the count to 2 and left a non-zero Lambda matrix
C11_Witness ==
    /\ mode = "lambda" /\ factor_args.strategy = "diagonal"
    /\ ~factor_args.has_shared_parameters
    /\ IsNone(storage[ACTIVATION_EIGENVECTORS_NAME])
    /\ IsNone(storage[GRADIENT_EIGENVECTORS_NAME])
    /\ lastOp = "backward_hook" /\ err = "none"
    /\ CountOf(storage, NUM_LAMBDA_PROCESSED) = 2
    /\ Val(storage[LAMBDA_MATRIX_NAME]) # Zeros(2, 2)

\* C12: synchronize() of either tracker leaves storage as it is unless a
\* distributed context is active, an accelerator is available and exist() is
\* true; with only part of the group set it reduces nothing; and a skipped
\* call raises nothing.
C12_SynchronizeSkips ==
    [][/\ \A dist_initialized \in BOOLEAN, cuda_available \in BOOLEAN :
            /\ ~(dist_initialized /\ cuda_available /\ CovarianceExist(storage)) =>
                   CovarianceSynchronize(storage, dist_initialized, cuda_available,
                                         PeerStorage) = storage
            /\ ~(dist_initialized /\ cuda_available /\ LambdaExist(storage)) =>
                   LambdaSynchronize(storage, dist_initialized, cuda_available,
                                     PeerStorage) = storage
       /\ (lastOp' = "synchronize" /\ mode = "covariance" /\ ~CovarianceExist(storage))
              => storage' = storage /\ err' = "none"
       /\ (lastOp' = "synchronize" /\ mode = "lambda" /\ ~LambdaExist(storage))
              => storage' = storage /\ err' = "none"]_vars

\* synchronize has just been called with the activation covariance set and the
\* gradient covariance still None, and nothing has ever been reduced
C12_Witness ==
    /\ mode = "covariance" /\ lastOp = "synchronize" /\ err = "none"
    /\ ~IsNone(storage[ACTIVATION_COVARIANCE_MATRIX_NAME])
    /\ IsNone(storage[GRADIENT_COVARIANCE_MATRIX_NAME])
    /\ ~hist.reduced
    /\ MatchesClosedForm(storage[ACTIVATION_COVARIANCE_MATRIX_NAME], hist.actRows)

\* what process 0 and the other workers held for an entry, added up
SumOfWorkers(name, own, others) ==
    IF name \in ProcessedCountNames
    THEN Val(own) + Val(others)
    ELSE [i \in 1..Len(Val(own)) |->
             [j \in 1..Len(Val(own)[i]) |-> Val(own)[i][j] + Val(others)[i][j]]]

\* C13: with a distributed context active, an accelerator available and the
\* factors of every worker present, synchronize() leaves process 0 holding, for
\* each matrix and each count of the group, the sum of what the workers held
\* before the call, and leaves the entries outside the group alone.
C13_CoordinatorHoldsSum ==
    [][/\ CovarianceExist(storage) =>
              LET after == CovarianceSynchronize(storage, TRUE, TRUE, PeerStorage)
              IN \A n \in FactorNames :
                    after[n] = IF n \in CovarianceGroup
                               THEN Some(SumOfWorkers(n, storage[n], PeerStorage[n]))
                               ELSE storage[n]
       /\ LambdaExist(storage) =>
              LET after == LambdaSynchronize(storage, TRUE, TRUE, PeerStorage)
              IN \A n \in FactorNames :
                    after[n] = IF n \in LambdaGroup
                               THEN Some(SumOfWorkers(n, storage[n], PeerStorage[n]))
                               ELSE storage[n]
       /\ (lastOp' = "synchronize" /\ storage' # storage) =>
              \A n \in FactorNames :
                 storage'[n] =
                     IF n \in (IF mode = "covariance" THEN CovarianceGroup ELSE LambdaGroup)
                     THEN Some(SumOfWorkers(n, storage[n], PeerStorage[n]))
                     ELSE storage[n]]_vars

\* process 0 had processed two activation rows and one gradient row when the
\* reduction added the other worker's one and one
C13_Witness ==
    /\ mode = "covariance" /\ lastOp = "synchronize" /\ hist.reduced
    /\ hist.actElems = 2 /\ hist.gradElems = 1
    /\ CountOf(storage, NUM_ACTIVATION_COVARIANCE_PROCESSED) = 3
    /\ CountOf(storage, NUM_GRADIENT_COVARIANCE_PROCESSED) = 2

\* C14: every update made under a strategy that requires eigendecomposition
\* while an eigenvector entry is None raises FactorsNotFoundError, whether the
\* Lambda entries were None before the call or already allocated (by an
\* earlier update, failed or not).
C14_MissingEigenvectorsAlwaysReported ==
    [][(/\ UpdateIsCalled
        /\ RequiresEigendecompositionForLambda(factor_args.strategy)
        /\ ~EigendecompositionResultsExist(storage))
       => err' = "FactorsNotFoundError"]_vars

MatrixNames ==
    {ACTIVATION_COVARIANCE_MATRIX_NAME, GRADIENT_COVARIANCE_MATRIX_NAME, LAMBDA_MATRIX_NAME}

\* a hook firing or a finalize step, whether it returned or raised
FiringOrFinalize == lastOp' \in {"forward_hook", "backward_hook", "finalize_iteration"}

\* the same shape, no diagonal entry smaller, and not all zero again
NotReset(before, after) ==
    /\ NumRows(after) = NumRows(before) /\ NumCols(after) = NumCols(before)
    /\ \A i \in 1..NumRows(before) : after[i][i] >= before[i][i]
    /\ before # Zeros(NumRows(before), NumCols(before))
           => after # Zeros(NumRows(before), NumCols(before))

\* C15: across hook firings and finalize steps, failed ones included, a count
\* that is set stays set and does not decrease, and a matrix that is set keeps
\* its shape and is not zeroed again; an entry that is set becomes None only
\* in a release_memory step.
C15_CountsMonotone ==
    [][/\ FiringOrFinalize =>
            /\ \A n \in ProcessedCountNames :
                  ~IsNone(storage[n]) =>
                      ~IsNone(storage'[n]) /\ Val(storage'[n]) >= Val(storage[n])
            /\ \A n \in MatrixNames :
                  ~IsNone(storage[n]) =>
                      ~IsNone(storage'[n]) /\ NotReset(Val(storage[n]), Val(storage'[n]))
       /\ \A n \in ProcessedCountNames \cup MatrixNames :
              (~IsNone(storage[n]) /\ IsNone(storage'[n])) => lastOp' = "release_memory"]_vars

\* a third forward firing has added to an activation count and matrix that
\* earlier firings had set
C15_Witness ==
    /\ mode = "covariance" /\ lastOp = "forward_hook"
    /\ hist.actFirings = 3
    /\ CountOf(storage, NUM_ACTIVATION_COVARIANCE_PROCESSED) = 3

\* every forward firing of the pass has had its backward firing
PassComplete == hist.fwdIdx > 0 /\ hist.bwdIdx = hist.fwdIdx /\ pending = <<>>

\* C16: on the non-shared path cached_activations is None after every backward
\* firing, whether its update returned or raised; on the shared path both
\* caches are None after the finalize_iteration that ends a pass in which each
\* forward firing was paired with a backward firing; after release_memory()
\* both caches are None.
C16_CacheLifecycle ==
    [][/\ (mode = "lambda" /\ ~factor_args.has_shared_parameters
           /\ lastOp' = "backward_hook")
              => IsNone(cached_activations')
       /\ (mode = "lambda" /\ factor_args.has_shared_parameters
           /\ lastOp' = "finalize_iteration" /\ PassComplete)
              => IsNone(cached_activations') /\ IsNone(cached_per_sample_gradient')
       /\ (mode = "lambda" /\ lastOp' = "release_memory")
              => IsNone(cached_activations') /\ IsNone(cached_per_sample_gradient')]_vars

AllNone(st, names) == \A n \in names : IsNone(st[n])
AllSet(st, names) == \A n \in names : ~IsNone(st[n])

\* C17 as stated: in every reachable state the four covariance entries are all
\* None or all set, and the two Lambda entries are both None or both set.
C17_GroupsComplete ==
    /\ AllNone(storage, CovarianceGroup) \/ AllSet(storage, CovarianceGroup)
    /\ AllNone(storage, LambdaGroup) \/ AllSet(storage, LambdaGroup)

ActivationPair == {ACTIVATION_COVARIANCE_MATRIX_NAME, NUM_ACTIVATION_COVARIANCE_PROCESSED}
GradientPair == {GRADIENT_COVARIANCE_MATRIX_NAME, NUM_GRADIENT_COVARIANCE_PROCESSED}

\* C17, amended: the two Lambda entries are both None or both set; the
\* covariance entries are allocated pair by pair, the activation matrix with
\* its count by the first forward firing and the gradient matrix with its
\* count by the first backward firing, so each pair is None or set as a whole
\* and the four are all set once a forward and a backward firing have both
\* happened since the last release; outside a covariance run the four are all
\* None or all set.
C17_GroupsCompleteByPair ==
    /\ AllNone(storage, LambdaGroup) \/ AllSet(storage, LambdaGroup)
    /\ AllNone(storage, ActivationPair) \/ AllSet(storage, ActivationPair)
    /\ AllNone(storage, GradientPair) \/ AllSet(storage, GradientPair)
    /\ (mode = "covariance" /\ hist.actFirings > 0) => AllSet(storage, ActivationPair)
    /\ (mode = "covariance" /\ hist.gradFirings > 0) => AllSet(storage, GradientPair)
    /\ (mode = "covariance" /\ lastOp = "release_memory") => AllNone(storage, CovarianceGroup)
    /\ mode = "lambda" =>
           AllNone(storage, CovarianceGroup) \/ AllSet(storage, CovarianceGroup)

\* between a forward firing and its backward firing: the activation pair is
\* set, the gradient pair is still None
C17_Witness ==
    /\ mode = "covariance" /\ lastOp = "forward_hook"
    /\ hist.actFirings = 1 /\ hist.gradFirings = 0
    /\ AllSet(storage, ActivationPair)
    /\ AllNone(storage, GradientPair)

EntriesUnchanged(names) == \A n \in names : storage'[n] = storage[n]

\* C18: a CovarianceTracker forward firing leaves the gradient-covariance
\* matrix and the gradient count as they were, a CovarianceTracker backward
\* firing leaves the activation-covariance matrix and the activation count as
\* they were, no CovarianceTracker operation changes the Lambda entries, and no
\* LambdaTracker operation changes the covariance entries.
C18_OwnPartOnly ==
    [][/\ (mode = "covariance" /\ lastOp' = "forward_hook") => EntriesUnchanged(GradientPair)
       /\ (mode = "covariance" /\ lastOp' = "backward_hook") => EntriesUnchanged(ActivationPair)
       /\ mode = "covariance" => EntriesUnchanged(LambdaGroup)
       /\ mode = "lambda" => EntriesUnchanged(CovarianceGroup)]_vars

\* a covariance run over storage that holds Lambda factors has fired forward
\* twice and backward once, and released nothing: the two counts differ and
\* the Lambda entries are those it started with
C18_Witness ==
    /\ mode = "covariance" /\ lastOp = "backward_hook"
    /\ hist.actFirings = 2 /\ hist.gradFirings = 1
    /\ CountOf(storage, NUM_ACTIVATION_COVARIANCE_PROCESSED)
           # CountOf(storage, NUM_GRADIENT_COVARIANCE_PROCESSED)
    /\ storage[LAMBDA_MATRIX_NAME] = PeerStorage[LAMBDA_MATRIX_NAME]
    /\ storage[NUM_LAMBDA_PROCESSED] = PeerStorage[NUM_LAMBDA_PROCESSED]

\* entry (i, j) of Q_G^T S Q_A, written out as a double sum
RotatedEntry(S, i, j, Q_A, Q_G) ==
    SumTo([p \in 1..NumRows(S) |->
              SumTo([q \in 1..NumCols(S) |-> Q_G[p][i] * S[p][q] * Q_A[q][j]], NumCols(S))],
          NumRows(S))

\* a matrix plus, sample by sample, the squared entries of the summed
\* per-sample gradient taken into the eigenbasis the strategy uses
PlusTransformOfSum(base, summed, st, args) ==
    IF RequiresEigendecompositionForLambda(args.strategy)
    THEN [i \in 1..NumRows(base) |->
             [j \in 1..NumCols(base) |->
                 base[i][j]
                 + SumTo([b \in 1..Len(summed) |->
                             RotatedEntry(summed[b], i, j,
                                          Val(st[ACTIVATION_EIGENVECTORS_NAME]),
                                          Val(st[GRADIENT_EIGENVECTORS_NAME]))
                             * RotatedEntry(summed[b], i, j,
                                            Val(st[ACTIVATION_EIGENVECTORS_NAME]),
                                            Val(st[GRADIENT_EIGENVECTORS_NAME]))],
                         Len(summed))]]
    ELSE PlusSumOfSquares(base, summed)

\* C19: on the shared path no forward or backward firing changes the Lambda
\* matrix or the Lambda count; the finalize step that ends a pass of k paired
\* invocations on a batch of b samples (the eigenvectors present where the
\* strategy needs them) adds b to the count, once, and adds to the matrix the
\* transform of the sum over the k invocations of the per-sample gradients.
C19_SharedUpdatesOncePerPass ==
    [][/\ (mode = "lambda" /\ factor_args.has_shared_parameters
           /\ lastOp' \in {"forward_hook", "backward_hook"})
              => LambdaEntriesUnchanged
       /\ (/\ mode = "lambda" /\ factor_args.has_shared_parameters
           /\ lastOp' = "finalize_iteration" /\ PassComplete
           /\ RequiresEigendecompositionForLambda(factor_args.strategy)
                  => EigendecompositionResultsExist(storage))
              => LET summed == Val(hist.expected)
                 IN /\ err' = "none"
                    /\ Val(storage'[NUM_LAMBDA_PROCESSED]) =
                           CountOf(storage, NUM_LAMBDA_PROCESSED) + Len(summed)
                    /\ Val(storage'[LAMBDA_MATRIX_NAME]) =
                           PlusTransformOfSum(LambdaMatrixOrZeros(storage, summed), summed,
                                              storage, factor_args)]_vars

\* the first pass of a shared module, on one sample, has been finalized: the
\* count is 1 and an entry of the Lambda matrix is 16, the square of a sum of
\* two firings' entries (their squares would add up to 8)
C19_Witness ==
    /\ mode = "lambda" /\ factor_args.has_shared_parameters
    /\ factor_args.strategy = "diagonal"
    /\ lastOp = "finalize_iteration" /\ err = "none"
    /\ CountOf(storage, NUM_LAMBDA_PROCESSED) = 1
    /\ \E i \in 1..2, j \in 1..2 : Val(storage[LAMBDA_MATRIX_NAME])[i][j] = 16

\* C20: finalize_iteration called while cached_per_sample_gradient is None (a
\* non-shared module, a shared module none of whose backward hooks has fired
\* since the cache was last cleared, a second finalize in a row) raises an
\* error and changes nothing: storage, the Lambda matrix and count among it,
\* and cached_activations are as before the call.
C20_FinalizeWithoutSumFails ==
    [][(mode = "lambda" /\ lastOp' = "finalize_iteration"
        /\ IsNone(cached_per_sample_gradient))
       => /\ err' = "AttributeError"
          /\ LambdaEntriesUnchanged
          /\ storage' = storage
          /\ cached_activations' = cached_activations
          /\ IsNone(cached_per_sample_gradient')]_vars

\* finalize has just failed on a shared module whose two forward firings are
\* still cached and none of whose backward hooks has fired
C20_Witness ==
    /\ mode = "lambda" /\ factor_args.has_shared_parameters
    /\ lastOp = "finalize_iteration" /\ err = "AttributeError"
    /\ ~IsNone(cached_activations) /\ Len(Val(cached_activations)) = 2
    /\ IsNone(cached_per_sample_gradient)
    /\ hist.bwdIdx = 0

====
